---------------------------- MODULE Spec2Model ----------------------------
(***************************************************************************)
(* Model of src/Messaging/index.ts: the exported message-sending functions *)
(* sendTextMessage, sendImage, sendVideo, sendDocument, sendVoiceNote,     *)
(* sendSticker, sendPollMessage, sendTyping and readMessage.               *)
(*                                                                         *)
(* Every invocation runs in a caller slot c.  The synchronous prefix of a  *)
(* function (up to its first await, or up to its throw) is one action; the *)
(* continuation after each await is one action.  Every call made on a      *)
(* session object, every settlement of such a call and every delay is      *)
(* appended to log, tagged with the slot that made it.                     *)
(*                                                                         *)
(* Optional parameters are sets with at most one element: {} is undefined. *)
(***************************************************************************)
EXTENDS Integers, Sequences, FiniteSets, TLC

VARIABLES sessions, pc, req, jid, log, outcome

vars == <<sessions, pc, req, jid, log, outcome>>

(***************************** bounds ***************************************)
MaxCalls == 2          \* caller slots (concurrent invocations)
MaxOptions == 3        \* longest pollValues array that is tried

(***************************** constants ************************************)
DefaultSelectableCount == 1
DefaultDuration == 1000
MinPollOptions == 2
MinSelectable == 1

Calls == 1..MaxCalls

(***************************** value domains ********************************)
Opt(S) == {{}} \cup {{v} : v \in S}
Get(o) == CHOOSE v \in o : TRUE
OrDefault(o, d) == IF o = {} THEN d ELSE Get(o)

SessionIds == {"s1", "s2"}
Phones == {"6281"}
Texts == {"hi"}
Quoted == {"m0"}
Keys == {"k1"}
\* media as passed by the caller: undefined, a string or a Buffer (either
\* possibly empty)
Medias == {{}, {<<"string", "">>}, {<<"string", "http://h/a">>},
           {<<"Buffer", "">>}, {<<"Buffer", "bytes">>}}
Filenames == {"report.pdf", "photo.PNG", "README", "data.zzz"}
PollNames == {{}, {""}, {"Lunch?"}}
Options(n) == [i \in 1..n |-> ToString(i)]
PollValues == {{}} \cup {{Options(n)} : n \in 0..MaxOptions}
SelectableCounts == Opt(-1..(MaxOptions + 1))
Durations == Opt({0, 500})
\* what a session call may resolve to
Receipts == {{}, {"wmi1"}, {"wmi2"}}
Void == {}
SessionErrors == {[kind |-> "Boom", message |-> <<"Connection Closed">>]}

(***************************** collaborators ********************************)
\* getSession(sessionId): the registered session, or undefined
getSession(sessionId) == IF sessionId \in sessions THEN {sessionId} ELSE {}

\* phoneToJid({to, isGroup}): the protocol address of a number or group id
phoneToJid(to, isGroup) ==
  [user |-> to,
   server |-> IF OrDefault(isGroup, FALSE) THEN "g.us" ELSE "s.whatsapp.net"]

\* Messages.sessionNotFound(sessionId)
sessionNotFound(sessionId) == <<"Session with ID: ", sessionId, " Not Found!">>

WhatsappError(message) == [kind |-> "WhatsappError", message |-> message]

\* mime.getType(filename): the MIME type of the (case-insensitive) extension
\* after the last dot, or null ({}) when there is none in the type table
getType(filename) ==
  CASE filename = "report.pdf" -> {"application/pdf"}
    [] filename = "photo.PNG"  -> {"image/png"}
    [] OTHER                   -> {}

\* !x of an optional string: undefined and "" are falsy
Falsy(o) == o = {} \/ o = {""}

\* !media of an optional string or Buffer: undefined and "" are falsy, every
\* Buffer is an object and truthy
FalsyMedia(media) ==
  media = {} \/ (Get(media)[1] = "string" /\ Get(media)[2] = "")

\* a variant that wraps every media value, Buffers too
WrapMediaAlways(media) == <<"url", Get(media)[2]>>

\* typeof media == "string" ? { url: media } : media
WrapMedia(media) ==
  IF Get(media)[1] = "string" THEN <<"url", Get(media)[2]>> ELSE Get(media)

(***************************** log events ***********************************)
Pending == [status |-> "pending", value |-> {}, error |-> {}]
Returned(v) == [status |-> "returned", value |-> v, error |-> {}]
Threw(e) == [status |-> "threw", value |-> {}, error |-> {e}]

NoReq == [fn |-> "none"]
NoJid == [user |-> "", server |-> ""]

TypeOK ==
  /\ sessions \subseteq SessionIds
  /\ pc \in [Calls -> {"idle", "sendMessage", "readMessages", "composing",
                       "delay", "available", "done"}]
  /\ DOMAIN req = Calls
  /\ DOMAIN jid = Calls
  /\ DOMAIN outcome = Calls

Init ==
  /\ sessions \in SUBSET SessionIds
  /\ pc = [c \in Calls |-> "idle"]
  /\ req = [c \in Calls |-> NoReq]
  /\ jid = [c \in Calls |-> NoJid]
  /\ log = <<>>
  /\ outcome = [c \in Calls |-> Pending]


(***************************** requests *************************************)
Common == [sessionId : SessionIds, to : Phones, isGroup : Opt(BOOLEAN),
           answering : Opt(Quoted)]

With(base, extra) ==
  [k \in DOMAIN base \cup DOMAIN extra |->
     IF k \in DOMAIN extra THEN extra[k] ELSE base[k]]

TextRequests ==
  {With(b, [fn |-> "sendTextMessage", text |-> t]) :
     b \in Common, t \in Opt(Texts)}

MediaRequests(fn) ==
  {With(b, [fn |-> fn, text |-> x[1], media |-> x[2]]) :
     b \in Common, x \in Opt(Texts) \X Medias}

DocumentRequests ==
  {With(b, [fn |-> "sendDocument", filename |-> f]) :
     b \in MediaRequests("sendDocument"), f \in Filenames}

PollRequests ==
  {With(b, [fn |-> "sendPollMessage", pollName |-> x[1], pollValues |-> x[2],
            selectableCount |-> x[3], toAnnouncementGroup |-> x[4]]) :
     b \in Common,
     x \in PollNames \X PollValues \X SelectableCounts \X Opt({TRUE})}

TypingRequests ==
  {[fn |-> "sendTyping", sessionId |-> x[1], to |-> x[2], isGroup |-> x[3],
    duration |-> x[4]] :
     x \in SessionIds \X Phones \X Opt(BOOLEAN) \X Durations}

ReadRequests ==
  {[fn |-> "readMessage", sessionId |-> s, key |-> k] :
     s \in SessionIds, k \in Keys}

(***************************** steps shared by the functions ****************)
\* throw e out of the running function
Throw(c, e) ==
  /\ outcome' = [outcome EXCEPT ![c] = Threw(e)]
  /\ pc' = [pc EXCEPT ![c] = "done"]

\* session.sendMessage(to, content, {quoted: props.answering}), then suspend
CallSendMessage(c, session, to, content, answering) ==
  /\ log' = Append(log, [c |-> c, e |-> "call", session |-> session,
                         method |-> "sendMessage", jid |-> to,
                         content |-> content,
                         options |-> [quoted |-> answering]])
  /\ pc' = [pc EXCEPT ![c] = "sendMessage"]
  /\ UNCHANGED outcome

\* session.sendPresenceUpdate(presence, to), then suspend
CallSendPresenceUpdate(c, session, presence, to) ==
  /\ log' = Append(log, [c |-> c, e |-> "call", session |-> session,
                         method |-> "sendPresenceUpdate",
                         presence |-> presence, jid |-> to])
  /\ pc' = [pc EXCEPT ![c] = presence]
  /\ UNCHANGED outcome

\* a variant that awaits the call without returning its value
ResolveDropsResult(c, v, result) ==
  /\ log' = Append(log, [c |-> c, e |-> "resolved", value |-> v])
  /\ outcome' = [outcome EXCEPT ![c] = Returned(Void)]
  /\ pc' = [pc EXCEPT ![c] = "done"]

\* the awaited session call settles: it resolves to v ...
Resolve(c, v, result) ==
  /\ log' = Append(log, [c |-> c, e |-> "resolved", value |-> v])
  /\ outcome' = [outcome EXCEPT ![c] = Returned(result)]
  /\ pc' = [pc EXCEPT ![c] = "done"]

\* a variant that catches the rejection and returns normally
RejectSwallowed(c, e) ==
  /\ log' = Append(log, [c |-> c, e |-> "rejected", error |-> e])
  /\ outcome' = [outcome EXCEPT ![c] = Returned(Void)]
  /\ pc' = [pc EXCEPT ![c] = "done"]

\* ... or rejects with e, which the function does not catch
Reject(c, e) ==
  /\ log' = Append(log, [c |-> c, e |-> "rejected", error |-> e])
  /\ Throw(c, e)

(***************************** exported functions ***************************)
sendTextMessage(c, r) ==
  /\ pc[c] = "idle"
  /\ req' = [req EXCEPT ![c] = r]
  /\ UNCHANGED sessions
  /\ LET session == getSession(r.sessionId)
         to == phoneToJid(r.to, r.isGroup)
     IN IF session = {}
        THEN /\ Throw(c, WhatsappError(sessionNotFound(r.sessionId)))
             /\ UNCHANGED <<jid, log>>
        ELSE /\ jid' = [jid EXCEPT ![c] = to]
             /\ CallSendMessage(c, Get(session), to,
                                [text |-> OrDefault(r.text, "")], r.answering)

\* a variant that tests media === undefined only
MediaMissingUndefinedOnly(media) == media = {}

\* if (!media)
MediaMissing(media) == FalsyMedia(media)

sendImage(c, r) ==
  /\ pc[c] = "idle"
  /\ req' = [req EXCEPT ![c] = r]
  /\ UNCHANGED sessions
  /\ LET session == getSession(r.sessionId)
         to == phoneToJid(r.to, r.isGroup)
     IN IF session = {}
        THEN /\ Throw(c, WhatsappError(sessionNotFound(r.sessionId)))
             /\ UNCHANGED <<jid, log>>
        ELSE /\ jid' = [jid EXCEPT ![c] = to]
             /\ IF MediaMissing(r.media)
                THEN /\ Throw(c, WhatsappError(
                            <<"parameter media must be Buffer or String URL">>))
                     /\ UNCHANGED log
                ELSE CallSendMessage(c, Get(session), to,
                                     [image |-> WrapMedia(r.media),
                                      caption |-> OrDefault(r.text, "")],
                                     r.answering)

sendVideo(c, r) ==
  /\ pc[c] = "idle"
  /\ req' = [req EXCEPT ![c] = r]
  /\ UNCHANGED sessions
  /\ LET session == getSession(r.sessionId)
         to == phoneToJid(r.to, r.isGroup)
     IN IF session = {}
        THEN /\ Throw(c, WhatsappError(sessionNotFound(r.sessionId)))
             /\ UNCHANGED <<jid, log>>
        ELSE /\ jid' = [jid EXCEPT ![c] = to]
             /\ IF MediaMissing(r.media)
                THEN /\ Throw(c, WhatsappError(
                            <<"parameter media must be Buffer or String URL">>))
                     /\ UNCHANGED log
                ELSE CallSendMessage(c, Get(session), to,
                                     [video |-> WrapMedia(r.media),
                                      caption |-> OrDefault(r.text, "")],
                                     r.answering)

\* a variant that looks at the filename before the media
DocumentErrorFilenameFirst(media, filename) ==
  IF getType(filename) = {}
  THEN {<<"Filename must include valid extension">>}
  ELSE IF MediaMissing(media) THEN {<<"Invalid Media">>} ELSE {}

\* the checks of sendDocument after the session lookup, in the order of the
\* code: {} when all pass, else the message of the first that fails
DocumentError(media, filename) ==
  IF MediaMissing(media) THEN {<<"Invalid Media">>}
  ELSE IF getType(filename) = {}
       THEN {<<"Filename must include valid extension">>}
       ELSE {}

sendDocument(c, r) ==
  /\ pc[c] = "idle"
  /\ req' = [req EXCEPT ![c] = r]
  /\ UNCHANGED sessions
  /\ LET session == getSession(r.sessionId)
         to == phoneToJid(r.to, r.isGroup)
         err == DocumentError(r.media, r.filename)
     IN IF session = {}
        THEN /\ Throw(c, WhatsappError(sessionNotFound(r.sessionId)))
             /\ UNCHANGED <<jid, log>>
        ELSE /\ jid' = [jid EXCEPT ![c] = to]
             /\ IF err # {}
                THEN /\ Throw(c, WhatsappError(Get(err)))
                     /\ UNCHANGED log
                ELSE CallSendMessage(c, Get(session), to,
                                     [fileName |-> r.filename,
                                      document |-> WrapMedia(r.media),
                                      mimetype |-> Get(getType(r.filename)),
                                      caption |-> OrDefault(r.text, "")],
                                     r.answering)

sendVoiceNote(c, r) ==
  /\ pc[c] = "idle"
  /\ req' = [req EXCEPT ![c] = r]
  /\ UNCHANGED sessions
  /\ LET session == getSession(r.sessionId)
         to == phoneToJid(r.to, r.isGroup)
     IN IF session = {}
        THEN /\ Throw(c, WhatsappError(sessionNotFound(r.sessionId)))
             /\ UNCHANGED <<jid, log>>
        ELSE /\ jid' = [jid EXCEPT ![c] = to]
             /\ IF MediaMissing(r.media)
                THEN /\ Throw(c, WhatsappError(<<"Invalid Media">>))
                     /\ UNCHANGED log
                ELSE CallSendMessage(c, Get(session), to,
                                     [audio |-> WrapMedia(r.media),
                                      ptt |-> TRUE],
                                     r.answering)

sendSticker(c, r) ==
  /\ pc[c] = "idle"
  /\ req' = [req EXCEPT ![c] = r]
  /\ UNCHANGED sessions
  /\ LET session == getSession(r.sessionId)
         to == phoneToJid(r.to, r.isGroup)
     IN IF session = {}
        THEN /\ Throw(c, WhatsappError(sessionNotFound(r.sessionId)))
             /\ UNCHANGED <<jid, log>>
        ELSE /\ jid' = [jid EXCEPT ![c] = to]
             /\ IF MediaMissing(r.media)
                THEN /\ Throw(c, WhatsappError(<<"Invalid Media">>))
                     /\ UNCHANGED log
                ELSE CallSendMessage(c, Get(session), to,
                                     [sticker |-> WrapMedia(r.media)],
                                     r.answering)

\* a variant that does not bound selectableCount from above
PollErrorNoUpperBound(pollName, pollValues, selectableCount) ==
  IF Falsy(pollName) THEN {<<"Poll name is required">>}
  ELSE IF pollValues = {} \/ Len(Get(pollValues)) < MinPollOptions
       THEN {<<"Poll must have at least 2 options">>}
       ELSE IF selectableCount < MinSelectable
            THEN {<<"Selectable count must be between 1 and ",
                    ToString(Len(Get(pollValues)))>>}
            ELSE {}

\* the checks of sendPollMessage after the session lookup, in the order of
\* the code: {} when all pass, else the message of the first that fails
PollError(pollName, pollValues, selectableCount) ==
  IF Falsy(pollName) THEN {<<"Poll name is required">>}
  ELSE IF pollValues = {} \/ Len(Get(pollValues)) < MinPollOptions
       THEN {<<"Poll must have at least 2 options">>}
       ELSE IF \/ selectableCount < MinSelectable
               \/ selectableCount > Len(Get(pollValues))
            THEN {<<"Selectable count must be between 1 and ",
                    ToString(Len(Get(pollValues)))>>}
            ELSE {}

\* a variant whose default is 0
SelectableCountOfZero(r) == OrDefault(r.selectableCount, 0)

\* selectableCount = 1 in the parameter list
SelectableCountOf(r) == OrDefault(r.selectableCount, DefaultSelectableCount)

sendPollMessage(c, r) ==
  /\ pc[c] = "idle"
  /\ req' = [req EXCEPT ![c] = r]
  /\ UNCHANGED sessions
  /\ LET session == getSession(r.sessionId)
         to == phoneToJid(r.to, r.isGroup)
         selectableCount == SelectableCountOf(r)
         err == PollError(r.pollName, r.pollValues, selectableCount)
     IN IF session = {}
        THEN /\ Throw(c, WhatsappError(sessionNotFound(r.sessionId)))
             /\ UNCHANGED <<jid, log>>
        ELSE /\ jid' = [jid EXCEPT ![c] = to]
             /\ IF err # {}
                THEN /\ Throw(c, WhatsappError(Get(err)))
                     /\ UNCHANGED log
                ELSE CallSendMessage(c, Get(session), to,
                       [poll |-> [name |-> Get(r.pollName),
                                  values |-> Get(r.pollValues),
                                  selectableCount |-> selectableCount,
                                  toAnnouncementGroup |->
                                    OrDefault(r.toAnnouncementGroup, FALSE)]],
                       r.answering)

\* return await session.sendMessage(...)
SendMessageSettled(c) ==
  /\ pc[c] = "sendMessage"
  /\ UNCHANGED <<sessions, req, jid>>
  /\ \/ \E v \in Receipts : Resolve(c, v, v)
     \/ \E e \in SessionErrors : Reject(c, e)

\* sendTyping up to its first await
sendTyping(c, r) ==
  /\ pc[c] = "idle"
  /\ req' = [req EXCEPT ![c] = r]
  /\ UNCHANGED sessions
  /\ LET to == phoneToJid(r.to, r.isGroup)
         session == getSession(r.sessionId)
     IN /\ jid' = [jid EXCEPT ![c] = to]
        /\ IF session = {}
           THEN /\ Throw(c, WhatsappError(sessionNotFound(r.sessionId)))
                /\ UNCHANGED log
           ELSE CallSendPresenceUpdate(c, Get(session), "composing", to)

\* a variant that ignores the requested duration
DurationOfFixed(r) == DefaultDuration

\* duration = 1000 in the parameter list
DurationOf(r) == OrDefault(r.duration, DefaultDuration)

\* await session.sendPresenceUpdate("composing", to) settles; createDelay
\* starts its timer
ComposingSettled(c) ==
  /\ pc[c] = "composing"
  /\ UNCHANGED <<sessions, req, jid>>
  /\ \/ /\ log' = log \o <<[c |-> c, e |-> "resolved", value |-> Void],
                           [c |-> c, e |-> "delayStart",
                            ms |-> DurationOf(req[c])]>>
        /\ pc' = [pc EXCEPT ![c] = "delay"]
        /\ UNCHANGED outcome
     \/ \E e \in SessionErrors : Reject(c, e)

\* the session that a running invocation resolved before its first await
SessionOf(c) == Get(getSession(req[c].sessionId))

\* a variant that repeats "composing" after the delay
DelayElapsedComposing(c) ==
  /\ pc[c] = "delay"
  /\ UNCHANGED <<sessions, req, jid, outcome>>
  /\ log' = log \o <<[c |-> c, e |-> "delayEnd", ms |-> DurationOf(req[c])],
                     [c |-> c, e |-> "call", session |-> SessionOf(c),
                      method |-> "sendPresenceUpdate",
                      presence |-> "composing", jid |-> jid[c]]>>
  /\ pc' = [pc EXCEPT ![c] = "available"]

\* await createDelay(duration) settles; the "available" update is issued
DelayElapsed(c) ==
  /\ pc[c] = "delay"
  /\ UNCHANGED <<sessions, req, jid, outcome>>
  /\ log' = log \o <<[c |-> c, e |-> "delayEnd", ms |-> DurationOf(req[c])],
                     [c |-> c, e |-> "call", session |-> SessionOf(c),
                      method |-> "sendPresenceUpdate",
                      presence |-> "available", jid |-> jid[c]]>>
  /\ pc' = [pc EXCEPT ![c] = "available"]

\* await session.sendPresenceUpdate("available", to) settles; the function
\* ends without a return value
AvailableSettled(c) ==
  /\ pc[c] = "available"
  /\ UNCHANGED <<sessions, req, jid>>
  /\ \/ Resolve(c, Void, Void)
     \/ \E e \in SessionErrors : Reject(c, e)

\* a variant of readMessage without the session guard
readMessageUnguarded(c, r) ==
  /\ pc[c] = "idle"
  /\ req' = [req EXCEPT ![c] = r]
  /\ UNCHANGED <<sessions, jid, outcome>>
  /\ log' = Append(log, [c |-> c, e |-> "call", session |-> r.sessionId,
                         method |-> "readMessages", keys |-> <<r.key>>])
  /\ pc' = [pc EXCEPT ![c] = "readMessages"]

\* readMessage up to its await
readMessage(c, r) ==
  /\ pc[c] = "idle"
  /\ req' = [req EXCEPT ![c] = r]
  /\ UNCHANGED <<sessions, jid>>
  /\ LET session == getSession(r.sessionId)
     IN IF session = {}
        THEN /\ Throw(c, WhatsappError(sessionNotFound(r.sessionId)))
             /\ UNCHANGED log
        ELSE /\ log' = Append(log, [c |-> c, e |-> "call",
                                    session |-> Get(session),
                                    method |-> "readMessages",
                                    keys |-> <<r.key>>])
             /\ pc' = [pc EXCEPT ![c] = "readMessages"]
             /\ UNCHANGED outcome

\* await session.readMessages([key]) settles; the function ends without a
\* return value
ReadMessagesSettled(c) ==
  /\ pc[c] = "readMessages"
  /\ UNCHANGED <<sessions, req, jid>>
  /\ \/ Resolve(c, Void, Void)
     \/ \E e \in SessionErrors : Reject(c, e)

(***************************** specifications *******************************)
\* no invocation is running or has run
Quiet == \A c \in Calls : pc[c] = "idle"

\* Spec: one invocation of any exported function, with any arguments, in any
\* caller slot, against any registry.
Next ==
  \/ \E c \in Calls : Quiet /\ \E r \in TextRequests : sendTextMessage(c, r)
  \/ \E c \in Calls :
       Quiet /\ \E r \in MediaRequests("sendImage") : sendImage(c, r)
  \/ \E c \in Calls :
       Quiet /\ \E r \in MediaRequests("sendVideo") : sendVideo(c, r)
  \/ \E c \in Calls : Quiet /\ \E r \in DocumentRequests : sendDocument(c, r)
  \/ \E c \in Calls :
       Quiet /\ \E r \in MediaRequests("sendVoiceNote") : sendVoiceNote(c, r)
  \/ \E c \in Calls :
       Quiet /\ \E r \in MediaRequests("sendSticker") : sendSticker(c, r)
  \/ \E c \in Calls : Quiet /\ \E r \in PollRequests : sendPollMessage(c, r)
  \/ \E c \in Calls : Quiet /\ \E r \in TypingRequests : sendTyping(c, r)
  \/ \E c \in Calls : Quiet /\ \E r \in ReadRequests : readMessage(c, r)
  \/ \E c \in Calls : SendMessageSettled(c)
  \/ \E c \in Calls : ComposingSettled(c)
  \/ \E c \in Calls : DelayElapsed(c)
  \/ \E c \in Calls : AvailableSettled(c)
  \/ \E c \in Calls : ReadMessagesSettled(c)

Spec == Init /\ [][Next]_vars

\* SpecTyping: sendTyping invocations on one session id running concurrently
\* in all caller slots, their awaits interleaved in every order.  The slots
\* are interchangeable, so they are taken in order.
ConcurrentTypingRequests ==
  {r \in TypingRequests :
     r.sessionId = "s1" /\ r.duration = {} /\ r.isGroup # {FALSE}}

NextFree(c) == pc[c] = "idle" /\ \A d \in 1..(c - 1) : pc[d] # "idle"

NextTyping ==
  \/ \E c \in Calls :
       NextFree(c) /\ \E r \in ConcurrentTypingRequests : sendTyping(c, r)
  \/ \E c \in Calls : ComposingSettled(c)
  \/ \E c \in Calls : DelayElapsed(c)
  \/ \E c \in Calls : AvailableSettled(c)

SpecTyping == Init /\ [][NextTyping]_vars


(***************************** histories ************************************)
\* what invocation c did, in order; and the session calls among it
Trace(c) == SelectSeq(log, LAMBDA ev : ev.c = c)
CallsOf(c) == SelectSeq(log, LAMBDA ev : ev.c = c /\ ev.e = "call")
Started(c) == pc[c] # "idle"
Fn(c) == req[c].fn

SendingFns == {"sendTextMessage", "sendImage", "sendVideo", "sendDocument",
               "sendVoiceNote", "sendSticker", "sendPollMessage"}
MediaFns == {"sendImage", "sendVideo", "sendDocument", "sendVoiceNote",
             "sendSticker"}

\* the request's session id is registered / its media is undefined or ""
SessionExists(c) == req[c].sessionId \in sessions
MediaAbsent(c) == req[c].media = {} \/ req[c].media = {<<"string", "">>}

MediaErrors ==
  {WhatsappError(<<"parameter media must be Buffer or String URL">>),
   WhatsappError(<<"Invalid Media">>)}

(***************************** C1 *******************************************)
\* C1: whatever the function, an invocation whose session id is not in the
\* registry has thrown the session-not-found error and has called no method
\* of any session.
C1_UnknownSessionFails ==
  \A c \in Calls :
    (Started(c) /\ ~SessionExists(c)) =>
      /\ pc[c] = "done"
      /\ outcome[c] = Threw(WhatsappError(sessionNotFound(req[c].sessionId)))
      /\ CallsOf(c) = <<>>

C1_Witness ==
  \E c \in Calls :
    /\ pc[c] = "done" /\ Fn(c) = "sendTyping" /\ ~SessionExists(c)
    /\ outcome[c].status = "threw"

NumOptions(c) ==
  IF req[c].pollValues = {} THEN 0 ELSE Len(Get(req[c].pollValues))
Selectable(c) ==
  IF req[c].selectableCount = {} THEN 1 ELSE Get(req[c].selectableCount)

\* C3: sendPollMessage with a registered session and fewer than two options,
\* or a selectable count below 1 or above the number of options, has thrown
\* an error and has never called session.sendMessage.
C3_PollValidationRejects ==
  \A c \in Calls :
    (/\ Started(c) /\ Fn(c) = "sendPollMessage" /\ SessionExists(c)
     /\ \/ NumOptions(c) < 2
        \/ Selectable(c) < 1
        \/ Selectable(c) > NumOptions(c)) =>
      /\ pc[c] = "done"
      /\ outcome[c].status = "threw"
      /\ \A e \in outcome[c].error : e.kind = "WhatsappError"
      /\ CallsOf(c) = <<>>

C3_Witness ==
  \E c \in Calls :
    /\ pc[c] = "done" /\ Fn(c) = "sendPollMessage" /\ SessionExists(c)
    /\ req[c].pollName = {"Lunch?"}
    /\ NumOptions(c) = 2 /\ Selectable(c) = 3
    /\ outcome[c].status = "threw"


(***************************** C4 *******************************************)
Address(c) == phoneToJid(req[c].to, req[c].isGroup)
RequestedDuration(c) ==
  IF req[c].duration = {} THEN 1000 ELSE Get(req[c].duration)
Presences(c) == [i \in 1..Len(CallsOf(c)) |-> CallsOf(c)[i].presence]
IsPrefix(s, t) == Len(s) <= Len(t) /\ \A i \in 1..Len(s) : s[i] = t[i]
Last(s) == s[Len(s)]
Front(s) == SubSeq(s, 1, Len(s) - 1)

\* what sendTyping does up to the settlement of its "available" update
TypingScript(c) ==
  <<[c |-> c, e |-> "call", session |-> req[c].sessionId,
     method |-> "sendPresenceUpdate", presence |-> "composing",
     jid |-> Address(c)],
    [c |-> c, e |-> "resolved", value |-> {}],
    [c |-> c, e |-> "delayStart", ms |-> RequestedDuration(c)],
    [c |-> c, e |-> "delayEnd", ms |-> RequestedDuration(c)],
    [c |-> c, e |-> "call", session |-> req[c].sessionId,
     method |-> "sendPresenceUpdate", presence |-> "available",
     jid |-> Address(c)]>>

\* C4 as stated: a completed sendTyping with a registered session has made
\* exactly two presence updates, "composing" then "available".
C4_Original ==
  \A c \in Calls :
    (pc[c] = "done" /\ Fn(c) = "sendTyping" /\ SessionExists(c)) =>
      Presences(c) = <<"composing", "available">>

\* C4 amended: sendTyping with a registered session sends "composing" to the
\* normalized address; when that update completes it waits the requested
\* duration (the delay starts after the completion) and then, after the delay
\* has elapsed, sends "available" to the same address, two updates in all;
\* when "composing" fails the error is thrown and it stays the only update.
C4_TypingBracketsDelay ==
  \A c \in Calls :
    (Started(c) /\ Fn(c) = "sendTyping" /\ SessionExists(c)) =>
      LET t == Trace(c) IN
      /\ pc[c] = "composing" => t = SubSeq(TypingScript(c), 1, 1)
      /\ pc[c] = "delay" => t = SubSeq(TypingScript(c), 1, 3)
      /\ pc[c] = "available" => t = TypingScript(c)
      /\ pc[c] = "done" =>
           \/ /\ Front(t) = TypingScript(c)
              /\ Last(t) = [c |-> c, e |-> "resolved", value |-> {}]
              /\ outcome[c] = Returned({})
           \/ /\ Front(t) = TypingScript(c) \/ Front(t) = SubSeq(TypingScript(c), 1, 1)
              /\ Last(t).e = "rejected"
              /\ outcome[c] = Threw(Last(t).error)

C4_Witness ==
  \E c \in Calls :
    /\ pc[c] = "done" /\ Fn(c) = "sendTyping" /\ SessionExists(c)
    /\ req[c].duration = {500} /\ req[c].isGroup = {TRUE}
    /\ outcome[c].status = "returned"
    /\ Presences(c) = <<"composing", "available">>

(***************************** C5 *******************************************)
\* the value the session resolved invocation c's call to
ResolvedValues(c) ==
  {Trace(c)[i].value : i \in {j \in 1..Len(Trace(c)) : Trace(c)[j].e = "resolved"}}

\* C5 as stated: every invocation makes at most one call on the session and
\* returns what that call resolved to.
C5_Original ==
  \A c \in Calls :
    /\ Len(CallsOf(c)) <= 1
    /\ outcome[c].status = "returned" => ResolvedValues(c) = {outcome[c].value}

\* C5 amended: every function but sendTyping makes at most one call on the
\* session, and when it returns, returns what that call resolved to (nothing,
\* for readMessage); sendTyping makes at most two calls, the second only after
\* the first has settled, and returns nothing.
C5_AtMostOneCallButTyping ==
  \A c \in Calls :
    LET t == Trace(c) IN
    /\ Fn(c) # "sendTyping" => Len(CallsOf(c)) <= 1
    /\ Fn(c) = "sendTyping" => Len(CallsOf(c)) <= 2
    /\ \A i \in 1..Len(t) :
         (t[i].e = "call" /\ i < Len(t)) => t[i + 1].e \in {"resolved", "rejected"}
    /\ outcome[c].status = "returned" =>
         /\ Last(t).e = "resolved" /\ outcome[c].value = Last(t).value
         /\ Fn(c) \in {"sendTyping", "readMessage"} => outcome[c].value = {}

C5_Witness ==
  \E c \in Calls :
    /\ pc[c] = "done" /\ Fn(c) = "sendImage"
    /\ Len(CallsOf(c)) = 1
    /\ outcome[c] = Returned({"wmi2"})

(***************************** C6 *******************************************)
\* a request that fails one of the local validations
InvalidRequest(c) ==
  \/ ~SessionExists(c)
  \/ Fn(c) \in MediaFns /\ MediaAbsent(c)
  \/ Fn(c) = "sendDocument" /\ req[c].filename \in {"README", "data.zzz"}
  \/ /\ Fn(c) = "sendPollMessage"
     /\ \/ req[c].pollName \in {{}, {""}}
        \/ NumOptions(c) < 2
        \/ Selectable(c) < 1
        \/ Selectable(c) > NumOptions(c)

\* C6: an invalid request has thrown a WhatsappError without any call on the
\* session; a rejected session call is the last thing its invocation did, and
\* the invocation has thrown that very error.
C6_SingleErrorKindNoRetry ==
  \A c \in Calls :
    LET t == Trace(c) IN
    /\ (Started(c) /\ InvalidRequest(c)) =>
         /\ pc[c] = "done" /\ outcome[c].status = "threw"
         /\ \A e \in outcome[c].error : e.kind = "WhatsappError"
         /\ t = <<>>
    /\ (Started(c) /\ ~InvalidRequest(c)) => CallsOf(c) # <<>>
    /\ \A i \in 1..Len(t) :
         t[i].e = "rejected" =>
           /\ i = Len(t)
           /\ pc[c] = "done"
           /\ outcome[c] = Threw(t[i].error)

C6_Witness ==
  \E c \in Calls :
    /\ pc[c] = "done" /\ Fn(c) = "sendTyping"
    /\ Len(Trace(c)) = 2 /\ Trace(c)[2].e = "rejected"
    /\ outcome[c].status = "threw"

(***************************** C7 *******************************************)
\* C7: sendDocument reports the first failing check in the order session,
\* media, filename, and calls session.sendMessage, once, with the MIME type
\* of the filename, only when all three pass.
C7_DocumentCheckOrder ==
  \A c \in Calls :
    (Started(c) /\ Fn(c) = "sendDocument") =>
      IF ~SessionExists(c)
      THEN /\ outcome[c].error = {WhatsappError(sessionNotFound(req[c].sessionId))}
           /\ CallsOf(c) = <<>>
      ELSE IF MediaAbsent(c)
      THEN /\ outcome[c].error = {WhatsappError(<<"Invalid Media">>)}
           /\ CallsOf(c) = <<>>
      ELSE IF req[c].filename \in {"README", "data.zzz"}
      THEN /\ outcome[c].error =
                {WhatsappError(<<"Filename must include valid extension">>)}
           /\ CallsOf(c) = <<>>
      ELSE /\ Len(CallsOf(c)) = 1
           /\ CallsOf(c)[1].method = "sendMessage"
           /\ CallsOf(c)[1].content.fileName = req[c].filename
           /\ {CallsOf(c)[1].content.mimetype} = getType(req[c].filename)

C7_Witness ==
  \E c \in Calls :
    /\ pc[c] = "done" /\ Fn(c) = "sendDocument" /\ SessionExists(c)
    /\ req[c].media = {} /\ req[c].filename = "README"
    /\ outcome[c].error = {WhatsappError(<<"Invalid Media">>)}

(***************************** C8 *******************************************)
ValidPoll(c) ==
  /\ req[c].pollName \notin {{}, {""}}
  /\ NumOptions(c) >= 2
  /\ 1 <= Selectable(c)
  /\ Selectable(c) <= NumOptions(c)

\* C8: sendPollMessage with a registered session calls session.sendMessage
\* exactly when the poll is valid, then once, forwarding name, values and
\* selectable count (1 when omitted) unchanged, and returns what the call
\* resolved to.
C8_PollForwarded ==
  \A c \in Calls :
    (Started(c) /\ Fn(c) = "sendPollMessage" /\ SessionExists(c)) =>
      /\ Len(CallsOf(c)) = IF ValidPoll(c) THEN 1 ELSE 0
      /\ ValidPoll(c) =>
           LET call == CallsOf(c)[1] IN
           /\ call.method = "sendMessage"
           /\ call.session = req[c].sessionId
           /\ call.jid = Address(c)
           /\ call.content.poll.name = Get(req[c].pollName)
           /\ call.content.poll.values = Get(req[c].pollValues)
           /\ call.content.poll.selectableCount = Selectable(c)
      /\ outcome[c].status = "returned" =>
           Trace(c)[2] = [c |-> c, e |-> "resolved", value |-> outcome[c].value]

C8_Witness ==
  \E c \in Calls :
    /\ pc[c] = "done" /\ Fn(c) = "sendPollMessage" /\ SessionExists(c)
    /\ req[c].selectableCount = {} /\ NumOptions(c) = 3
    /\ outcome[c] = Returned({"wmi1"})

(***************************** C9 *******************************************)
\* the media field of a payload, by function
MediaField(c, content) ==
  CASE Fn(c) = "sendImage" -> content.image
    [] Fn(c) = "sendVideo" -> content.video
    [] Fn(c) = "sendDocument" -> content.document
    [] Fn(c) = "sendVoiceNote" -> content.audio
    [] Fn(c) = "sendSticker" -> content.sticker

MediaForwarded(c) ==
  /\ Len(CallsOf(c)) = 1
  /\ LET call == CallsOf(c)[1]
         media == Get(req[c].media)
     IN /\ call.method = "sendMessage"
        /\ call.session = req[c].sessionId
        /\ call.jid = Address(c)
        /\ MediaField(c, call.content) =
             IF media[1] = "string" THEN <<"url", media[2]>> ELSE media
        /\ Fn(c) = "sendVoiceNote" => call.content.ptt = TRUE

\* C9 as stated: every media sender with a registered session and present
\* media calls session.sendMessage once with the media in its field.
C9_Original ==
  \A c \in Calls :
    (Started(c) /\ Fn(c) \in MediaFns /\ SessionExists(c) /\ ~MediaAbsent(c)) =>
      MediaForwarded(c)

\* C9 amended: the same, provided that for sendDocument the filename maps to
\* a MIME type.
C9_MediaForwarded ==
  \A c \in Calls :
    (/\ Started(c) /\ Fn(c) \in MediaFns /\ SessionExists(c) /\ ~MediaAbsent(c)
     /\ Fn(c) = "sendDocument" => req[c].filename \notin {"README", "data.zzz"}) =>
      MediaForwarded(c)

C9_Witness ==
  \E c \in Calls :
    /\ pc[c] = "done" /\ Fn(c) = "sendVoiceNote" /\ SessionExists(c)
    /\ req[c].media = {<<"Buffer", "bytes">>}
    /\ Len(CallsOf(c)) = 1
    /\ outcome[c].status = "returned"

(***************************** C10 ******************************************)
Addresses == {phoneToJid(t, g) : t \in Phones, g \in Opt(BOOLEAN)}

\* the presence updates sent through session s to address a, in order
PresenceTo(s, a) ==
  SelectSeq(log, LAMBDA ev : /\ ev.e = "call"
                             /\ ev.method = "sendPresenceUpdate"
                             /\ ev.session = s /\ ev.jid = a)
Count(seq, presence) == Len(SelectSeq(seq, LAMBDA ev : ev.presence = presence))
NoFailure == \A i \in 1..Len(log) : log[i].e # "rejected"
AllCompleted == \A c \in Calls : pc[c] \in {"idle", "done"}

\* C10: while no presence update has failed, on every session and address
\* the "available" updates sent never outnumber the "composing" ones; once
\* every call has completed they are as many, and the last update sent is
\* "available".
C10_ConcurrentTypingBalanced ==
  NoFailure =>
    \A s \in SessionIds : \A a \in Addresses :
      LET p == PresenceTo(s, a) IN
      /\ Count(p, "available") <= Count(p, "composing")
      /\ (AllCompleted /\ p # <<>>) =>
           /\ Last(p).presence = "available"
           /\ Count(p, "available") = Count(p, "composing")

C10_Witness ==
  /\ NoFailure
  /\ \A c \in Calls : pc[c] = "done"
  /\ \E s \in SessionIds : \E a \in Addresses :
       LET p == PresenceTo(s, a) IN
       /\ Len(p) = 2 * MaxCalls
       /\ p[1].presence = "composing" /\ p[2].presence = "composing"

=============================================================================
